---- MODULE Spec2Model ----
(***************************************************************************)
(* Dataset utilities of the yolov9 repository:                             *)
(*   generate_labels.py    convert_json_to_yolo_labels, rle_to_yolo_polygon *)
(*   merge_COCO_dataset.py merge_annotation_files                          *)
(*   split_COCO_dataset.py split_coco_dataset_by_category                  *)
(* Each script is a sequential program; it is modelled as a state machine  *)
(* whose inputs (the JSON dataset files) are drawn in the initial state.   *)
(***************************************************************************)
EXTENDS Integers, Sequences, FiniteSets, TLC

VARIABLES
    pc,                 \* position of convert_json_to_yolo_labels
    data,               \* the loaded JSON: images, categories, annotations
    image_id_to_info,   \* dict image id -> image record
    category_mapping,   \* dict category id -> class index
    idx,                \* 1-based position of the annotation loop
    new_annotations,    \* list of rewritten annotation records
    image_annotations,  \* insertion-ordered dict image id -> [(class_idx, polygon)]
    widx,               \* 1-based position of the label-writing loop
    label_files,        \* file system: label file name -> list of lines
    json_out,           \* file system: <<>> or <<the rewritten dataset>>
    log,                \* printed warnings, <<kind, annotation position>>
    exc,                \* the exception that ended the run, "" if none
    \* merge_annotation_files
    mpc,                \* position of merge_annotation_files
    source_data,        \* the loaded source file: images, annotations
    target_data,        \* the loaded target file: images, annotations
    new_images,         \* source images to add
    new_image_ids,      \* ids of the source images to add
    merge_annotations,  \* new_annotations of merge_annotation_files
    merged_out,         \* file system: <<>> or <<the merged dataset>>
    \* split_coco_dataset_by_category
    spc,                \* position of split_coco_dataset_by_category
    coco_data,          \* the loaded dataset: images, annotations
    train_ratio,        \* train_ratio as <<numerator, denominator>>
    category_to_annotations, \* insertion-ordered dict category id -> [annotation]
    cidx,               \* 1-based position of the loop over the categories
    train_coco,         \* the train dataset being built: images, annotations
    val_coco,           \* the val dataset being built: images, annotations
    train_image_ids,    \* ids of the train images not yet added
    val_image_ids,      \* ids of the val images not yet added
    train_dir,          \* file system: files copied into train_dir
    val_dir,            \* file system: files copied into val_dir
    split_out,          \* file system: <<>> or <<train file, val file>>
    sexc                \* the exception that ended the split, "" if none

cvars == <<pc, data, image_id_to_info, category_mapping, idx, new_annotations,
           image_annotations, widx, label_files, json_out, log, exc>>

mvars == <<mpc, source_data, target_data, new_images, new_image_ids,
           merge_annotations, merged_out>>

svars == <<spc, coco_data, train_ratio, category_to_annotations, cidx, train_coco,
           val_coco, train_image_ids, val_image_ids, train_dir, val_dir, split_out, sexc>>

vars == <<cvars, mvars, svars>>

\* ---------------------------------------------------------------- bounds
MaxAnns == 2

MaxSrcImages == 2

MaxSrcAnns == 2

MaxSplitAnns == 3

\* ------------------------------------------------------------ sequences
Range(s) == { s[k] : k \in 1..Len(s) }

SeqsUpTo(S, n) == UNION { [1..k -> S] : k \in 0..n }

\* ------------------------------------------------- insertion-ordered dict
\* A Python dict that is iterated (image_annotations) is a sequence of
\* <<key, value>> pairs with distinct keys, in insertion order.
DictKeys(d) == { d[k][1] : k \in 1..Len(d) }

DictPos(d, key) == CHOOSE k \in 1..Len(d) : d[k][1] = key

DictGet(d, key) == d[DictPos(d, key)][2]

DictSet(d, key, val) ==
    IF key \in DictKeys(d)
    THEN [d EXCEPT ![DictPos(d, key)] = <<key, val>>]
    ELSE Append(d, <<key, val>>)

\* ------------------------------------------------------------ input data
RequiredKeys == {"id", "image_id", "category_id", "segmentation"}

\* data['images'] of the modelled input file: two images of different sizes.
Images ==
    << [id |-> 1, file_name |-> [stem |-> "a", ext |-> ".jpg"], width |-> 4, height |-> 2],
       [id |-> 2, file_name |-> [stem |-> "b", ext |-> ".png"], width |-> 2, height |-> 2] >>

\* Values a JSON "segmentation" field can hold.  An RLE object carries counts
\* and size; a polygon list is flat ([x, y, ...]) or nested ([[x, y, ...], ...]).
RleEmpty   == [kind |-> "rle", counts |-> <<4>>, size |-> <<2, 2>>]
RleFull    == [kind |-> "rle", counts |-> <<0, 4>>, size |-> <<2, 2>>]
RlePart    == [kind |-> "rle", counts |-> <<1, 2, 1>>, size |-> <<2, 2>>]
DictOther  == [kind |-> "dict"]
NumberSeg  == [kind |-> "number"]
NullSeg    == [kind |-> "null"]
StringSeg  == [kind |-> "str"]
FlatPoly   == [kind |-> "flat", points |-> <<0, 0, 2, 0, 2, 1>>]
FlatOdd    == [kind |-> "flat", points |-> <<0, 0, 2>>]
FlatEmpty  == [kind |-> "flat", points |-> <<>>]
NestedPoly == [kind |-> "nested", polys |-> << <<0, 0, 1, 1>>, <<0, 0, 2, 0, 2, 1>>, <<1, 1, 0, 1, 0, 0>> >>]
NoSeg      == [kind |-> "absent"]

SegShapes == {RleEmpty, RleFull, RlePart, DictOther, NumberSeg, NullSeg, StringSeg,
              FlatPoly, FlatOdd, FlatEmpty, NestedPoly}

Ann(img, cat, seg) ==
    [keys |-> RequiredKeys, id |-> 0, image_id |-> img, category_id |-> cat,
     segmentation |-> seg]

Without(ann, key) == [ann EXCEPT !.keys = @ \ {key}]

\* The annotation records the input may hold (the id is set from the position).
\* Image 3 is in no image record; category 99 is in no declared category list.
AnnShapes ==
    { Ann(1, 10, seg) : seg \in SegShapes }
    \cup { Ann(2, 20, seg) : seg \in {RleFull, DictOther, FlatPoly} }
    \cup { Ann(2, 10, NestedPoly), Ann(3, 10, FlatPoly), Ann(1, 99, FlatPoly) }
    \cup { Without(Ann(1, 10, FlatPoly), key) : key \in RequiredKeys }
    \cup { [Ann(0, 0, NoSeg) EXCEPT !.keys = {"id"}] }

AnnLists ==
    { [k \in 1..Len(shapes) |-> [shapes[k] EXCEPT !.id = k]] :
        shapes \in SeqsUpTo(AnnShapes, MaxAnns) }

\* data['categories']: absent, or a list of category records.
NoCategories == [present |-> FALSE, list |-> <<>>]

Categories(ids) == [present |-> TRUE, list |-> [k \in 1..Len(ids) |-> [id |-> ids[k]]]]

CategoryLists ==
    { NoCategories, Categories(<<>>), Categories(<<10>>), Categories(<<10, 20>>),
      Categories(<<20, 10>>), Categories(<<10, 10, 20>>) }

\* ------------------------------------------------------- rle_to_yolo_polygon
\* mask_utils.decode: the counts are alternating run lengths of background
\* and foreground, scanned column by column; the result is the pixel
\* sequence in that (column-major) order.
RECURSIVE Decode(_, _)
Decode(counts, bit) ==
    IF counts = <<>> THEN <<>>
    ELSE [k \in 1..counts[1] |-> bit] \o Decode(Tail(counts), 1 - bit)

\* cv2.findContours / max(contourArea) / approxPolyDP are library code: the
\* model keeps what the caller depends on, that there is no contour exactly
\* when the mask has no foreground pixel, and takes the foreground pixels in
\* scan order as the vertices of the chosen contour.
RECURSIVE Contour(_, _, _)
Contour(mask, k, height) ==
    IF k > Len(mask) THEN <<>>
    ELSE (IF mask[k] = 1 THEN << (k - 1) \div height, (k - 1) % height >> ELSE <<>>)
         \o Contour(mask, k + 1, height)

\* Lines 49-53 and 177-181: x / img_width, y / img_height for each pair; a
\* quotient is kept as <<numerator, denominator>>.  Indexing i+1 past the end
\* of an odd-length list raises IndexError.
NormalizeRaises(points) == Len(points) % 2 = 1

Normalize(points, img_width, img_height) ==
    [k \in 1..Len(points) |->
        <<points[k], IF k % 2 = 1 THEN img_width ELSE img_height>>]

\* The value returned: the empty list when no contour is found (line 36),
\* else the pair (normalized, flattened) (line 55), as a sequence.
rle_to_yolo_polygon(rle, img_height, img_width) ==
    LET binary_mask == Decode(rle.counts, 0)
        flattened   == Contour(binary_mask, 1, rle.size[1])
    IN  IF flattened = <<>>
        THEN <<>>
        ELSE << Normalize(flattened, img_width, img_height), flattened >>

\* ------------------------------------------------ convert_json_to_yolo_labels
\* Lines 93-99.
ImageIdToInfo(images) ==
    [id \in { images[k].id : k \in 1..Len(images) } |->
        images[CHOOSE k \in 1..Len(images) :
                  /\ images[k].id = id
                  /\ \A j \in (k + 1)..Len(images) : images[j].id # id]]

\* Mutant of CategoryMapping: enumerate started at 1 instead of 0.
CategoryMappingOneBased(categories, annotations) ==
    IF categories.present
    THEN LET list == categories.list
         IN  [c \in { list[k].id : k \in 1..Len(list) } |->
                CHOOSE k \in 1..Len(list) :
                    /\ list[k].id = c
                    /\ \A j \in (k + 1)..Len(list) : list[j].id # c]
    ELSE LET unique_cats == { annotations[k].category_id :
                                k \in { j \in 1..Len(annotations) :
                                          "category_id" \in annotations[j].keys } }
         IN  [c \in unique_cats |-> Cardinality({ d \in unique_cats : d <= c })]

\* Lines 102-113.  With a declared list a dict comprehension over
\* enumerate(categories) is built: a later record with the same id overwrites
\* the earlier one.  Without one, the sorted set of referenced ids is numbered.
CategoryMapping(categories, annotations) ==
    IF categories.present
    THEN LET list == categories.list
         IN  [c \in { list[k].id : k \in 1..Len(list) } |->
                (CHOOSE k \in 1..Len(list) :
                    /\ list[k].id = c
                    /\ \A j \in (k + 1)..Len(list) : list[j].id # c) - 1]
    ELSE LET unique_cats == { annotations[k].category_id :
                                k \in { j \in 1..Len(annotations) :
                                          "category_id" \in annotations[j].keys } }
         IN  [c \in unique_cats |-> Cardinality({ d \in unique_cats : d < c })]

\* Mutant of MissingRequired: the segmentation key is not checked.
MissingRequiredNoSeg(ann) == ~({"id", "image_id", "category_id"} \subseteq ann.keys)

\* Line 122.
MissingRequired(ann) == ~(RequiredKeys \subseteq ann.keys)

\* Line 131.
UnknownImage(ann, info) == ann.image_id \notin DOMAIN info

\* Lines 139-140: the image's entry is created before the segmentation is
\* looked at.
InitEntry(ia, image_id) ==
    IF image_id \notin DictKeys(ia) THEN Append(ia, <<image_id, <<>>>>) ELSE ia

\* 'counts' in ann['segmentation'] (line 147): key membership for an object,
\* element membership for a list, substring test for a string (the modelled
\* string does not contain it); a number or null is not iterable (TypeError).
InRaises(seg) == seg.kind \in {"number", "null"}

HasCounts(seg) == seg.kind = "rle"

\* isinstance(ann['segmentation'], list) (line 165).
IsList(seg) == seg.kind \in {"flat", "nested"}

\* max(poly_list, key=len) (line 172): the first polygon of maximal length.
LargestPoly(polys) ==
    polys[CHOOSE k \in 1..Len(polys) :
             /\ \A j \in 1..Len(polys) : Len(polys[j]) <= Len(polys[k])
             /\ \A j \in 1..(k - 1) : Len(polys[j]) < Len(polys[k])]

\* Lines 145-190 for one annotation: what the segmentation dispatch does.
\*   "accept": a label entry and a rewritten annotation are appended
\*   "skip"  : a warning is printed and the loop continues
\*   "raise" : an exception leaves the function
Accept(polygon, new_ann) ==
    [res |-> "accept", polygon |-> polygon, new_ann |-> new_ann, what |-> ""]

SkipAnn(what) == [res |-> "skip", what |-> what]

Raise(what) == [res |-> "raise", what |-> what]

Dispatch(ann, img_width, img_height) ==
    LET seg == ann.segmentation IN
    IF InRaises(seg) THEN Raise("TypeError")
    ELSE IF HasCounts(seg)
    THEN LET ret == rle_to_yolo_polygon(seg, img_height, img_width) IN
         \* yolo_polygon, raw_polygon = ... (line 149) unpacks two values
         IF Len(ret) # 2 THEN Raise("ValueError")
         ELSE IF ret[1] = <<>> THEN SkipAnn("no_contours")
         ELSE Accept(ret[1],
                     [ann EXCEPT !.segmentation =
                         [kind |-> "nested", polys |-> <<ret[2]>>]])
    ELSE IF IsList(seg)
    THEN IF seg.kind = "flat" /\ seg.points = <<>> THEN Raise("IndexError")
         ELSE LET poly_points == IF seg.kind = "nested"
                                 THEN LargestPoly(seg.polys)
                                 ELSE seg.points
              IN  IF NormalizeRaises(poly_points) THEN Raise("IndexError")
                  ELSE Accept(Normalize(poly_points, img_width, img_height), ann)
    ELSE SkipAnn("unknown_format")

\* f"{coord:.6f}" (line 203): the quotient rounded to millionths.
Format6(q) == (2 * q[1] * 1000000 + q[2]) \div (2 * q[2])

\* os.path.splitext(file_name)[0] + ".txt" (lines 197-200).
LabelName(file_name) == [stem |-> file_name.stem, ext |-> ".txt"]

\* Lines 202-204: one line per entry of the image.  src is the position of
\* the annotation the line comes from; it is bookkeeping of the model and is
\* not part of the text written.
LabelLines(entries) ==
    [k \in 1..Len(entries) |->
        [class_idx |-> entries[k].class_idx,
         coords    |-> [j \in 1..Len(entries[k].polygon) |-> Format6(entries[k].polygon[j])],
         src       |-> entries[k].src]]

\* open(label_path, 'w'): creates the file or replaces its content.
WriteFile(files, name, content) ==
    [n \in DOMAIN files \cup {name} |-> IF n = name THEN content ELSE files[n]]

\* The state of a program that is not the one being run.
SplitIdle ==
    /\ spc = "idle"
    /\ coco_data = [images |-> <<>>, annotations |-> <<>>]
    /\ train_ratio = <<0, 1>>
    /\ category_to_annotations = <<>>
    /\ cidx = 1
    /\ train_coco = [images |-> <<>>, annotations |-> <<>>]
    /\ val_coco = [images |-> <<>>, annotations |-> <<>>]
    /\ train_image_ids = {}
    /\ val_image_ids = {}
    /\ train_dir = {}
    /\ val_dir = {}
    /\ split_out = <<>>
    /\ sexc = ""

MergeIdle ==
    /\ mpc = "idle"
    /\ source_data = [images |-> <<>>, annotations |-> <<>>]
    /\ target_data = [images |-> <<>>, annotations |-> <<>>]
    /\ new_images = <<>>
    /\ new_image_ids = {}
    /\ merge_annotations = <<>>
    /\ merged_out = <<>>

ConvertIdle ==
    /\ pc = "idle"
    /\ data = [images |-> <<>>, categories |-> NoCategories, annotations |-> <<>>]
    /\ image_id_to_info = <<>>
    /\ category_mapping = <<>>
    /\ idx = 1
    /\ new_annotations = <<>>
    /\ image_annotations = <<>>
    /\ widx = 1
    /\ label_files = <<>>
    /\ json_out = <<>>
    /\ log = <<>>
    /\ exc = ""

Init ==
    /\ MergeIdle
    /\ SplitIdle
    /\ pc = "start"
    /\ data \in { [images |-> Images, categories |-> cats, annotations |-> anns] :
                    cats \in CategoryLists, anns \in AnnLists }
    /\ image_id_to_info = <<>>
    /\ category_mapping = <<>>
    /\ idx = 1
    /\ new_annotations = <<>>
    /\ image_annotations = <<>>
    /\ widx = 1
    /\ label_files = <<>>
    /\ json_out = <<>>
    /\ log = <<>>
    /\ exc = ""

\* Lines 87-119: load the file, build the two mappings, start the pass.
Load ==
    /\ pc = "start"
    /\ image_id_to_info' = ImageIdToInfo(data.images)
    /\ category_mapping' = CategoryMapping(data.categories, data.annotations)
    /\ new_annotations' = <<>>
    /\ image_annotations' = <<>>
    /\ idx' = 1
    /\ pc' = "pass"
    /\ UNCHANGED <<data, widx, label_files, json_out, log, exc>>
    /\ UNCHANGED <<mvars, svars>>

\* Mutant of PassExhausted: the loop stops one record early.
PassExhaustedEarly(i, annotations) == i >= Len(annotations)

\* for ann in data['annotations'] (line 120): the loop ends when every record
\* has been visited.
PassExhausted(i, annotations) == i > Len(annotations)

\* One iteration of the loop of lines 120-190.
ProcessAnnotation ==
    /\ pc = "pass"
    /\ idx <= Len(data.annotations)
    /\ ~PassExhausted(idx, data.annotations)
    /\ LET ann == data.annotations[idx] IN
       IF MissingRequired(ann)
       THEN /\ log' = Append(log, <<"missing_fields", idx>>)
            /\ idx' = idx + 1
            /\ UNCHANGED <<pc, exc, image_annotations, new_annotations>>
       ELSE IF UnknownImage(ann, image_id_to_info)
       THEN /\ log' = Append(log, <<"unknown_image", idx>>)
            /\ idx' = idx + 1
            /\ UNCHANGED <<pc, exc, image_annotations, new_annotations>>
       ELSE
         LET img_info == image_id_to_info[ann.image_id]
             ia       == InitEntry(image_annotations, ann.image_id)
         IN
         IF ann.category_id \notin DOMAIN category_mapping
         THEN \* category_mapping[category_id] (line 143): KeyError
              /\ pc' = "aborted"
              /\ exc' = "KeyError"
              /\ image_annotations' = ia
              /\ UNCHANGED <<idx, log, new_annotations>>
         ELSE
           LET class_idx == category_mapping[ann.category_id]
               d         == Dispatch(ann, img_info.width, img_info.height)
           IN
           CASE d.res = "raise" ->
                  /\ pc' = "aborted"
                  /\ exc' = d.what
                  /\ image_annotations' = ia
                  /\ UNCHANGED <<idx, log, new_annotations>>
             [] d.res = "skip" ->
                  /\ log' = Append(log, <<d.what, idx>>)
                  /\ image_annotations' = ia
                  /\ idx' = idx + 1
                  /\ UNCHANGED <<pc, exc, new_annotations>>
             [] d.res = "accept" ->
                  /\ image_annotations' =
                        DictSet(ia, ann.image_id,
                                Append(DictGet(ia, ann.image_id),
                                       [class_idx |-> class_idx,
                                        polygon   |-> d.polygon,
                                        src       |-> idx]))
                  /\ new_annotations' = Append(new_annotations, d.new_ann)
                  /\ idx' = idx + 1
                  /\ UNCHANGED <<pc, exc, log>>
    /\ UNCHANGED <<data, image_id_to_info, category_mapping, widx, label_files, json_out>>
    /\ UNCHANGED <<mvars, svars>>

\* The loop of lines 120-190 is exhausted; line 193.
EndPass ==
    /\ pc = "pass"
    /\ PassExhausted(idx, data.annotations)
    /\ pc' = "write_labels"
    /\ widx' = 1
    /\ UNCHANGED <<data, image_id_to_info, category_mapping, idx, new_annotations,
                   image_annotations, label_files, json_out, log, exc>>
    /\ UNCHANGED <<mvars, svars>>

\* One iteration of the loop of lines 194-204.
WriteLabel ==
    /\ pc = "write_labels"
    /\ widx <= Len(image_annotations)
    /\ LET image_id == image_annotations[widx][1]
           entries  == image_annotations[widx][2]
           img_info == image_id_to_info[image_id]
       IN  label_files' = WriteFile(label_files, LabelName(img_info.file_name),
                                    LabelLines(entries))
    /\ widx' = widx + 1
    /\ UNCHANGED <<pc, data, image_id_to_info, category_mapping, idx, new_annotations,
                   image_annotations, json_out, log, exc>>
    /\ UNCHANGED <<mvars, svars>>

\* Lines 215-231: data['annotations'] = new_annotations; json.dump(data).
\* The dumped dict is the content of json_out; data keeps the loaded input.
WriteJson ==
    /\ pc = "write_labels"
    /\ widx > Len(image_annotations)
    /\ json_out' = << [data EXCEPT !.annotations = new_annotations] >>
    /\ pc' = "done"
    /\ UNCHANGED <<data, image_id_to_info, category_mapping, idx, new_annotations,
                   image_annotations, widx, label_files, log, exc>>
    /\ UNCHANGED <<mvars, svars>>

Next ==
    \/ Load
    \/ ProcessAnnotation
    \/ EndPass
    \/ WriteLabel
    \/ WriteJson

Spec == Init /\ [][Next]_vars

\* ===================================================================
\* Properties of convert_json_to_yolo_labels
\* ===================================================================
NumAnns == Len(data.annotations)

ImageIds == { Images[k].id : k \in 1..Len(Images) }

\* The annotation at position k has all required fields and names a listed image.
WellFormed(k) ==
    /\ {"id", "image_id", "category_id", "segmentation"} \subseteq data.annotations[k].keys
    /\ data.annotations[k].image_id \in ImageIds

\* The annotation's category has an index in the mapping built for this input.
CategoryKnown(k) ==
    \/ ~data.categories.present
    \/ \E j \in 1..Len(data.categories.list) :
          data.categories.list[j].id = data.annotations[k].category_id

\* Where the annotation at position k shows up in the outputs.
InNewAnnotations(k) == \E j \in 1..Len(new_annotations) : new_annotations[j].id = k

InLabelEntries(k) ==
    \E e \in 1..Len(image_annotations) :
        \E j \in 1..Len(image_annotations[e][2]) : image_annotations[e][2][j].src = k

InLabelFiles(k) ==
    \E n \in DOMAIN label_files :
        \E j \in 1..Len(label_files[n]) : label_files[n][j].src = k

InJson(k) ==
    /\ json_out # <<>>
    /\ \E j \in 1..Len(json_out[1].annotations) : json_out[1].annotations[j].id = k

Contributes(k) ==
    InNewAnnotations(k) \/ InLabelEntries(k) \/ InLabelFiles(k) \/ InJson(k)

\* The run stopped with an exception while processing the annotation at k.
AbortedAt(k) == pc = "aborted" /\ idx = k

AllBackground(seg) ==
    /\ seg.kind = "rle"
    /\ Len(seg.counts) <= 1

\* C1: an annotation whose RLE segmentation decodes to an all-background mask
\* is skipped: the run does not stop at it, a "no contours" warning is logged
\* once the loop has passed it, and it contributes no label line and no entry
\* of the rewritten annotations list.
C1_EmptyRleSkipped ==
    \A k \in 1..NumAnns :
        (WellFormed(k) /\ CategoryKnown(k) /\ AllBackground(data.annotations[k].segmentation))
        => /\ ~AbortedAt(k)
           /\ ~Contributes(k)
           /\ (pc # "start" /\ idx > k) => <<"no_contours", k>> \in Range(log)

\* C2: after a completed run a label file exists for an image only if at
\* least one annotation of that image was accepted.
C2_NoLabelFileWithoutAccepted ==
    pc = "done" =>
        \A i \in 1..Len(Images) :
            LabelName(Images[i].file_name) \in DOMAIN label_files
            => \E j \in 1..Len(new_annotations) : new_annotations[j].image_id = Images[i].id

\* The annotation at k lacks a required field or names an image that is not
\* in the images list.
Invalid(k) == ~WellFormed(k)

\* C3: an annotation that lacks one of id, image_id, category_id,
\* segmentation, or whose image_id is not in the images list, is skipped
\* without aborting: the step that visits it moves on to the next record and
\* leaves the accepted annotations and the per-image label entries (their
\* keys included) as they were, and the annotation never shows up in an output.
C3_InvalidSkipped ==
    /\ [][ (pc = "pass" /\ idx <= NumAnns /\ Invalid(idx))
           => /\ pc' = "pass"
              /\ idx' = idx + 1
              /\ new_annotations' = new_annotations
              /\ image_annotations' = image_annotations
              /\ label_files' = label_files ]_vars
    /\ [](\A k \in 1..NumAnns : Invalid(k) => ~Contributes(k))

\* C3 witness: a completed run that skipped an invalid annotation and
\* accepted a later one.
C3_Witness ==
    /\ pc = "done"
    /\ \E k \in 1..NumAnns : \E j \in (k + 1)..NumAnns :
          Invalid(k) /\ InJson(j) /\ InLabelFiles(j)

\* C4: per-record errors never interrupt the batch: the pass never ends in an
\* exception raised by the content of a record (a category_id missing from the
\* declared list, an empty polygon list, a polygon with an odd number of
\* coordinates).
C4_NoRecordAbortsBatch == ~(pc = "aborted" /\ exc \in {"KeyError", "IndexError"})

\* C5: an annotation whose segmentation is neither an RLE object nor a
\* polygon list (an object without counts, a number, null, a string) is
\* logged and skipped: the run does not stop at it, the warning is logged once
\* the loop has passed it, and it appears in neither output.
C5_OtherShapeSkipped ==
    \A k \in 1..NumAnns :
        (/\ WellFormed(k)
         /\ CategoryKnown(k)
         /\ data.annotations[k].segmentation.kind \in {"dict", "number", "null", "str"})
        => /\ ~AbortedAt(k)
           /\ ~Contributes(k)
           /\ (pc # "start" /\ idx > k) => <<"unknown_format", k>> \in Range(log)

\* C6 (as stated): with a declared category list the index of a category
\* identifier is its position in the list, otherwise its rank among the
\* referenced identifiers; distinct identifiers get distinct indices and the
\* indices used are exactly 0..k-1 for k categories.
C6_PositionAndContiguous ==
    pc # "start" =>
        LET cm   == category_mapping
            list == data.categories.list
            refd == { data.annotations[k].category_id :
                        k \in { j \in 1..NumAnns : "category_id" \in data.annotations[j].keys } }
        IN  /\ data.categories.present =>
                \A k \in 1..Len(list) : cm[list[k].id] = k - 1
            /\ ~data.categories.present =>
                /\ DOMAIN cm = refd
                /\ \A c \in refd : cm[c] = Cardinality({ d \in refd : d < c })
            /\ \A c, d \in DOMAIN cm : c # d => cm[c] # cm[d]
            /\ { cm[c] : c \in DOMAIN cm } = 0..(Cardinality(DOMAIN cm) - 1)

\* C6 (amended): with a declared category list the index of a category
\* identifier is its last position in the list (its position when the
\* declared identifiers are pairwise distinct), otherwise its rank among the
\* referenced identifiers; distinct identifiers get distinct indices; the
\* indices used are exactly 0..k-1 when no identifier is declared twice, and
\* lie in 0..n-1 for a declared list of n records otherwise.
C6_LastPositionAndContiguous ==
    pc # "start" =>
        LET cm   == category_mapping
            list == data.categories.list
            refd == { data.annotations[k].category_id :
                        k \in { j \in 1..NumAnns : "category_id" \in data.annotations[j].keys } }
            distinctIds == \A i, j \in 1..Len(list) : i # j => list[i].id # list[j].id
            used == { cm[c] : c \in DOMAIN cm }
        IN  /\ data.categories.present =>
                /\ DOMAIN cm = { list[k].id : k \in 1..Len(list) }
                /\ \A k \in 1..Len(list) :
                      (\A j \in (k + 1)..Len(list) : list[j].id # list[k].id)
                      => cm[list[k].id] = k - 1
                /\ used \subseteq 0..(Len(list) - 1)
                /\ distinctIds => used = 0..(Cardinality(DOMAIN cm) - 1)
            /\ ~data.categories.present =>
                /\ DOMAIN cm = refd
                /\ \A c \in refd : cm[c] = Cardinality({ d \in refd : d < c })
                /\ used = 0..(Cardinality(DOMAIN cm) - 1)
            /\ \A c, d \in DOMAIN cm : c # d => cm[c] # cm[d]

\* C6 witness: a mapping built from a declared list that names an identifier
\* twice, used to label an accepted annotation.
C6_Witness ==
    /\ pc = "done"
    /\ data.categories.present
    /\ \E i, j \in 1..Len(data.categories.list) :
          i < j /\ data.categories.list[i].id = data.categories.list[j].id
    /\ Cardinality(DOMAIN category_mapping) = 2
    /\ \E n \in DOMAIN label_files : \E j \in 1..Len(label_files[n]) :
          label_files[n][j].class_idx = 2

\* C10: output files are written only after the whole annotation pass: no
\* label file and no rewritten dataset file exists while an annotation is
\* still unprocessed or after a run that aborted during the pass, and the
\* rewritten dataset file is written only after the label file of every
\* image of the per-image label set.
C10_WritesAfterPass ==
    /\ (label_files # <<>> \/ json_out # <<>>)
        => /\ idx > NumAnns
           /\ pc \in {"write_labels", "done"}
    /\ pc \in {"start", "pass", "aborted"} => (label_files = <<>> /\ json_out = <<>>)
    /\ json_out # <<>> =>
          \A e \in 1..Len(image_annotations) :
              LabelName(image_id_to_info[image_annotations[e][1]].file_name)
                  \in DOMAIN label_files

\* C10 witness: a completed run that wrote two label files and then the
\* rewritten dataset file.
C10_Witness ==
    /\ pc = "done"
    /\ Cardinality(DOMAIN label_files) = 2
    /\ json_out # <<>>
    /\ NumAnns = MaxAnns

\* The positions of the accepted annotations of an image, in the order of the
\* rewritten annotations list (the processing order).
AcceptedOf(image_id) ==
    LET OfImage(a) == a.image_id = image_id
        kept == SelectSeq(json_out[1].annotations, OfImage)
    IN  [j \in 1..Len(kept) |-> kept[j].id]

\* The annotation positions the lines of a label file come from, in file order.
LineSources(name) == [j \in 1..Len(label_files[name]) |-> label_files[name][j].src]

ImagesWithAccepted ==
    { i \in 1..Len(Images) : AcceptedOf(Images[i].id) # <<>> }

\* C11 (first part): the label file of an image that has accepted annotations
\* exists and holds exactly one line per accepted annotation of that image,
\* in processing order, and no line of another image.
C11_LinesOfAcceptedImages ==
    pc = "done" =>
        \A i \in ImagesWithAccepted :
            /\ LabelName(Images[i].file_name) \in DOMAIN label_files
            /\ LineSources(LabelName(Images[i].file_name)) = AcceptedOf(Images[i].id)

\* C11: after a completed run there is one label file per image that has
\* accepted annotations, holding exactly one line per accepted annotation of
\* that image in processing order and no line of another image; the number
\* of label files equals the number of images with accepted annotations and
\* the total number of label lines equals the length of the rewritten
\* annotations list.
C11_LabelFilesMatchAccepted ==
    pc = "done" =>
        /\ \A i \in ImagesWithAccepted :
              /\ LabelName(Images[i].file_name) \in DOMAIN label_files
              /\ LineSources(LabelName(Images[i].file_name)) = AcceptedOf(Images[i].id)
        /\ Cardinality(DOMAIN label_files) = Cardinality(ImagesWithAccepted)
        /\ Cardinality(UNION { { <<n, j>> : j \in 1..Len(label_files[n]) } :
                                 n \in DOMAIN label_files })
              = Len(json_out[1].annotations)

\* ===================================================================
\* merge_COCO_dataset.py: merge_annotation_files
\* ===================================================================
\* An image record of a dataset file; keys is the set of keys present.
Img(id, height, width, file_name) ==
    [keys |-> {"id", "height", "width", "file_name"}, id |-> id,
     height |-> height, width |-> width, file_name |-> file_name]

\* Source images: with or without an id, equal or different in size and name,
\* one without a file_name.
SourceImagePool ==
    { Img(1, 2, 2, "a"), Img(2, 2, 2, "a"), Img(1, 2, 2, "b"), Img(2, 2, 2, "b"),
      Img(2, 4, 2, "a"),
      Without(Img(0, 2, 2, "b"), "id"), Without(Img(0, 4, 2, "a"), "id"),
      Without(Img(1, 2, 2, ""), "file_name") }

TargetImageLists ==
    { <<>>,
      << Img(1, 2, 2, "a") >>,
      << Img(1, 2, 2, "a"), Img(2, 2, 2, "b") >>,
      << Img(1, 2, 2, "b"), Without(Img(2, 2, 2, ""), "file_name") >> }

\* An annotation record of the merge: id and, when present, image_id.
MergeAnn(id, image_id) == [keys |-> {"id", "image_id"}, id |-> id, image_id |-> image_id]

SourceAnnPool == { MergeAnn(0, 1), MergeAnn(0, 2), Without(MergeAnn(0, 0), "image_id") }

SourceAnnLists ==
    { [k \in 1..Len(shapes) |-> [shapes[k] EXCEPT !.id = k]] :
        shapes \in SeqsUpTo(SourceAnnPool, MaxSrcAnns) }

TargetAnnLists == { <<>>, << MergeAnn(100, 1) >> }

\* img.get(key, None): <<value>> when the key is present, <<>> for None.
DictGetOrNone(rec, key, value) == IF key \in rec.keys THEN <<value>> ELSE <<>>

\* Mutant of Fingerprint: the file name alone identifies an image.
FingerprintNameOnly(img) == << DictGetOrNone(img, "file_name", img.file_name) >>

\* Lines 28-29 and 38-39.
Fingerprint(img) ==
    << DictGetOrNone(img, "height", img.height),
       DictGetOrNone(img, "width", img.width),
       DictGetOrNone(img, "file_name", img.file_name) >>

\* Lines 25-30.
TargetImageFingerprints(images) == { Fingerprint(images[k]) : k \in 1..Len(images) }

\* Lines 37-45: the source images whose fingerprint the target does not have,
\* in source order.
RECURSIVE NewImages(_, _)
NewImages(images, fingerprints) ==
    IF images = <<>> THEN <<>>
    ELSE (IF Fingerprint(Head(images)) \notin fingerprints
          THEN << Head(images) >> ELSE <<>>)
         \o NewImages(Tail(images), fingerprints)

\* Lines 43-44.
NewImageIds(images) ==
    { images[k].id : k \in { j \in 1..Len(images) : "id" \in images[j].keys } }

\* Lines 52-61: the annotations of the new images by image_id, or, when no
\* new image has an id, the first len(new_images) source annotations.
RECURSIVE FilterAnnotations(_, _)
FilterAnnotations(annotations, ids) ==
    IF annotations = <<>> THEN <<>>
    ELSE (IF "image_id" \in Head(annotations).keys /\ Head(annotations).image_id \in ids
          THEN << Head(annotations) >> ELSE <<>>)
         \o FilterAnnotations(Tail(annotations), ids)

Prefix(s, n) == SubSeq(s, 1, IF n < Len(s) THEN n ELSE Len(s))

NewAnnotations(annotations, ids, images) ==
    IF ids # {}
    THEN FilterAnnotations(annotations, ids)
    ELSE Prefix(annotations, Len(images))

MergeInit ==
    /\ ConvertIdle
    /\ SplitIdle
    /\ mpc = "start"
    /\ source_data \in { [images |-> imgs, annotations |-> anns] :
                           imgs \in SeqsUpTo(SourceImagePool, MaxSrcImages),
                           anns \in SourceAnnLists }
    /\ target_data \in { [images |-> imgs, annotations |-> anns] :
                           imgs \in TargetImageLists, anns \in TargetAnnLists }
    /\ new_images = <<>>
    /\ new_image_ids = {}
    /\ merge_annotations = <<>>
    /\ merged_out = <<>>

\* Lines 23-45.
FindNewImages ==
    /\ mpc = "start"
    /\ LET found == NewImages(source_data.images,
                              TargetImageFingerprints(target_data.images))
       IN  /\ new_images' = found
           /\ new_image_ids' = NewImageIds(found)
    /\ mpc' = "annotations"
    /\ UNCHANGED <<source_data, target_data, merge_annotations, merged_out>>
    /\ UNCHANGED <<cvars, svars>>

\* Lines 51-61.
FindNewAnnotations ==
    /\ mpc = "annotations"
    /\ merge_annotations' = NewAnnotations(source_data.annotations, new_image_ids, new_images)
    /\ mpc' = "extend"
    /\ UNCHANGED <<source_data, target_data, new_images, new_image_ids, merged_out>>
    /\ UNCHANGED <<cvars, svars>>

\* Lines 63-79: target_data's lists are extended and target_data is dumped.
\* The extended dict is the content of merged_out; target_data keeps the
\* loaded target.
ExtendAndSave ==
    /\ mpc = "extend"
    /\ merged_out' = << [images      |-> target_data.images \o new_images,
                         annotations |-> target_data.annotations \o merge_annotations] >>
    /\ mpc' = "done"
    /\ UNCHANGED <<source_data, target_data, new_images, new_image_ids, merge_annotations>>
    /\ UNCHANGED <<cvars, svars>>

MergeNext ==
    \/ FindNewImages
    \/ FindNewAnnotations
    \/ ExtendAndSave

MergeSpec == MergeInit /\ [][MergeNext]_vars

\* ===================================================================
\* Properties of merge_annotation_files
\* ===================================================================
\* Two image records agree on key: both lack it, or both have the same value.
AgreeOn(a, b, key, va, vb) ==
    /\ (key \in a.keys) = (key \in b.keys)
    /\ key \in a.keys => va = vb

SameFingerprint(a, b) ==
    /\ AgreeOn(a, b, "height", a.height, b.height)
    /\ AgreeOn(a, b, "width", a.width, b.width)
    /\ AgreeOn(a, b, "file_name", a.file_name, b.file_name)

\* A source image that no target image duplicates.
NotInTarget(img) ==
    \A j \in 1..Len(target_data.images) : ~SameFingerprint(img, target_data.images[j])

AppendedImages == SelectSeq(source_data.images, NotInTarget)

AppendedIds == { img.id : img \in { i \in Range(AppendedImages) : "id" \in i.keys } }

DuplicateIds ==
    { img.id : img \in { i \in Range(source_data.images) :
                           "id" \in i.keys /\ ~NotInTarget(i) } }

OfAppendedImage(ann) == "image_id" \in ann.keys /\ ann.image_id \in AppendedIds

\* The source annotations the merged output holds after the target's own.
AddedAnnotations ==
    SubSeq(merged_out[1].annotations, Len(target_data.annotations) + 1,
           Len(merged_out[1].annotations))

\* C7 (as stated): the merged output is the target's images and annotations
\* followed by exactly the source images whose fingerprint no target image
\* has, in source order, and exactly the source annotations whose image_id is
\* the id of one of those images; no annotation of a source image that
\* duplicates a target image is added.
C7_MergeByFingerprint ==
    mpc = "done" =>
        /\ merged_out[1].images = target_data.images \o AppendedImages
        /\ merged_out[1].annotations =
              target_data.annotations \o SelectSeq(source_data.annotations, OfAppendedImage)
        /\ \A a \in Range(AddedAnnotations) :
              ~("image_id" \in a.keys /\ a.image_id \in DuplicateIds)

\* C7 (amended): the images are as stated; the annotations appended are
\* exactly the source annotations whose image_id is the id of an appended
\* image when at least one appended image has an id, and the first N source
\* annotations (all of them if there are fewer) for N appended images when
\* none has; an annotation whose image_id is the id of a source image that
\* duplicates a target image is not added, unless that id is also the id of
\* an appended image or the annotation is among those first N.
C7_MergeByFingerprintOrPrefix ==
    mpc = "done" =>
        LET n     == Len(AppendedImages)
            first == IF n < Len(source_data.annotations)
                     THEN n ELSE Len(source_data.annotations)
        IN  /\ merged_out[1].images = target_data.images \o AppendedImages
            /\ SubSeq(merged_out[1].annotations, 1, Len(target_data.annotations))
                  = target_data.annotations
            /\ AppendedIds # {} =>
                  AddedAnnotations = SelectSeq(source_data.annotations, OfAppendedImage)
            /\ AppendedIds = {} =>
                  AddedAnnotations = SubSeq(source_data.annotations, 1, first)
            /\ \A a \in Range(AddedAnnotations) :
                  ("image_id" \in a.keys /\ a.image_id \in DuplicateIds)
                  => \/ a.image_id \in AppendedIds
                     \/ (AppendedIds = {} /\ a.id <= first)

\* C7 witness: the source holds an image the target already has and a new
\* one, with an annotation for each; only the new image and its annotation
\* are appended.
C7_Witness ==
    /\ mpc = "done"
    /\ Len(target_data.images) = 2
    /\ Len(source_data.images) = 2
    /\ Len(AppendedImages) = 1
    /\ AppendedIds # {}
    /\ DuplicateIds # {}
    /\ \E a, b \in Range(source_data.annotations) :
          /\ "image_id" \in a.keys /\ a.image_id \in AppendedIds
          /\ "image_id" \in b.keys /\ b.image_id \in DuplicateIds \ AppendedIds
    /\ Len(merged_out[1].images) = 3
    /\ Len(AddedAnnotations) = 1

\* Every image record of the list has an id and no two records share one.
UniqueImageIds(images) ==
    /\ \A k \in 1..Len(images) : "id" \in images[k].keys
    /\ \A j, k \in 1..Len(images) : j # k => images[j].id # images[k].id

\* C12: when image ids are unique within the source file and within the
\* target file, no two image records of the merged output share an id, so
\* the image_id of a merged annotation designates at most one image record.
C12_MergedImageIdsUnique ==
    (/\ mpc = "done"
     /\ UniqueImageIds(source_data.images)
     /\ UniqueImageIds(target_data.images))
    => /\ \A j, k \in 1..Len(merged_out[1].images) :
             j # k => merged_out[1].images[j].id # merged_out[1].images[k].id
       /\ \A a \in Range(merged_out[1].annotations) :
             "image_id" \in a.keys
             => Cardinality({ k \in 1..Len(merged_out[1].images) :
                                merged_out[1].images[k].id = a.image_id }) <= 1

\* ===================================================================
\* split_COCO_dataset.py: split_coco_dataset_by_category
\* ===================================================================
\* coco_data['images'] of the modelled input.
SplitImages ==
    << [id |-> 1, file_name |-> "a.jpg"], [id |-> 2, file_name |-> "b.jpg"] >>

SplitAnn(image_id, category_id) ==
    [id |-> 0, image_id |-> image_id, category_id |-> category_id]

\* Annotations of two categories on two images; image 9 is in no image record.
SplitAnnPool ==
    { SplitAnn(1, 10), SplitAnn(2, 10), SplitAnn(1, 20), SplitAnn(2, 20), SplitAnn(9, 10) }

SplitAnnLists ==
    { [k \in 1..Len(shapes) |-> [shapes[k] EXCEPT !.id = k]] :
        shapes \in SeqsUpTo(SplitAnnPool, MaxSplitAnns) }

\* train_ratio: the default 0.8 (line 7) and one half.  A ratio is kept as
\* <<numerator, denominator>>; for these values and the list lengths of the
\* model the float product len(anns) * train_ratio truncates to the same
\* integer as the exact quotient.
TrainRatios == { <<4, 5>>, <<1, 2>> }

\* Mutant of SplitIdx: the product is rounded up instead of truncated.
SplitIdxRoundUp(n, ratio) == (n * ratio[1] + ratio[2] - 1) \div ratio[2]

\* int(len(anns) * train_ratio) (line 45).
SplitIdx(n, ratio) == (n * ratio[1]) \div ratio[2]

\* Lines 38-40: annotations grouped by category_id, categories in the order
\* of their first annotation.
RECURSIVE GroupByCategory(_, _)
GroupByCategory(annotations, groups) ==
    IF annotations = <<>> THEN groups
    ELSE LET ann == Head(annotations)
             old == IF ann.category_id \in DictKeys(groups)
                    THEN DictGet(groups, ann.category_id) ELSE <<>>
         IN  GroupByCategory(Tail(annotations),
                             DictSet(groups, ann.category_id, Append(old, ann)))

\* random.shuffle(anns) (line 44): every order of the list can result.
Shuffles(anns) ==
    { [k \in 1..Len(anns) |-> anns[p[k]]] : p \in Permutations(1..Len(anns)) }

\* Lines 53-54.
ImageIdsOf(annotations) == { annotations[k].image_id : k \in 1..Len(annotations) }

\* Lines 34-35: the dicts by image id (a later record with the same id wins).
SplitImageInfo(images, id) ==
    images[CHOOSE k \in 1..Len(images) :
              /\ images[k].id = id
              /\ \A j \in (k + 1)..Len(images) : images[j].id # id]

KnownImageIds(images) == { images[k].id : k \in 1..Len(images) }

SplitInit ==
    /\ ConvertIdle
    /\ MergeIdle
    /\ spc = "start"
    /\ coco_data \in { [images |-> SplitImages, annotations |-> anns] :
                         anns \in SplitAnnLists }
    /\ train_ratio \in TrainRatios
    /\ category_to_annotations = <<>>
    /\ cidx = 1
    /\ train_coco = [images |-> <<>>, annotations |-> <<>>]
    /\ val_coco = [images |-> <<>>, annotations |-> <<>>]
    /\ train_image_ids = {}
    /\ val_image_ids = {}
    /\ train_dir = {}
    /\ val_dir = {}
    /\ split_out = <<>>
    /\ sexc = ""

\* Lines 9-40: load, create the empty datasets, group the annotations.
GroupAnnotations ==
    /\ spc = "start"
    /\ category_to_annotations' = GroupByCategory(coco_data.annotations, <<>>)
    /\ cidx' = 1
    /\ spc' = "split"
    /\ UNCHANGED <<coco_data, train_ratio, train_coco, val_coco, train_image_ids,
                   val_image_ids, train_dir, val_dir, split_out, sexc>>
    /\ UNCHANGED <<cvars, mvars>>

\* One iteration of the loop of lines 43-50.
SplitCategory ==
    /\ spc = "split"
    /\ cidx <= Len(category_to_annotations)
    /\ \E anns \in Shuffles(category_to_annotations[cidx][2]) :
          LET split_idx  == SplitIdx(Len(anns), train_ratio)
              train_anns == SubSeq(anns, 1, split_idx)
              val_anns   == SubSeq(anns, split_idx + 1, Len(anns))
          IN  /\ category_to_annotations' =
                    [category_to_annotations EXCEPT ![cidx][2] = anns]
              /\ train_coco' = [train_coco EXCEPT !.annotations = @ \o train_anns]
              /\ val_coco' = [val_coco EXCEPT !.annotations = @ \o val_anns]
    /\ cidx' = cidx + 1
    /\ UNCHANGED <<spc, coco_data, train_ratio, train_image_ids, val_image_ids,
                   train_dir, val_dir, split_out, sexc>>
    /\ UNCHANGED <<cvars, mvars>>

\* Lines 53-54: the loop over the categories is exhausted; the sets of
\* referenced image ids are built.
CollectImageIds ==
    /\ spc = "split"
    /\ cidx > Len(category_to_annotations)
    /\ train_image_ids' = ImageIdsOf(train_coco.annotations)
    /\ val_image_ids' = ImageIdsOf(val_coco.annotations)
    /\ spc' = "train_images"
    /\ UNCHANGED <<coco_data, train_ratio, category_to_annotations, cidx, train_coco,
                   val_coco, train_dir, val_dir, split_out, sexc>>
    /\ UNCHANGED <<cvars, mvars>>

\* One iteration of the loop of lines 56-58.  A set is iterated in an order
\* the program does not choose; image_id_to_info[img_id] raises KeyError for
\* an id that is in no image record.
AddTrainImage ==
    /\ spc = "train_images"
    /\ \E img_id \in train_image_ids :
          IF img_id \in KnownImageIds(coco_data.images)
          THEN LET info == SplitImageInfo(coco_data.images, img_id) IN
               /\ train_coco' = [train_coco EXCEPT !.images = Append(@, info)]
               /\ train_dir' = train_dir \cup {info.file_name}
               /\ train_image_ids' = train_image_ids \ {img_id}
               /\ UNCHANGED <<spc, sexc>>
          ELSE /\ spc' = "aborted"
               /\ sexc' = "KeyError"
               /\ UNCHANGED <<train_coco, train_dir, train_image_ids>>
    /\ UNCHANGED <<coco_data, train_ratio, category_to_annotations, cidx, val_coco,
                   val_image_ids, val_dir, split_out>>
    /\ UNCHANGED <<cvars, mvars>>

\* The loop of lines 56-58 is exhausted.
EndTrainImages ==
    /\ spc = "train_images"
    /\ train_image_ids = {}
    /\ spc' = "val_images"
    /\ UNCHANGED <<coco_data, train_ratio, category_to_annotations, cidx, train_coco,
                   val_coco, train_image_ids, val_image_ids, train_dir, val_dir,
                   split_out, sexc>>
    /\ UNCHANGED <<cvars, mvars>>

\* One iteration of the loop of lines 60-62.
AddValImage ==
    /\ spc = "val_images"
    /\ \E img_id \in val_image_ids :
          IF img_id \in KnownImageIds(coco_data.images)
          THEN LET info == SplitImageInfo(coco_data.images, img_id) IN
               /\ val_coco' = [val_coco EXCEPT !.images = Append(@, info)]
               /\ val_dir' = val_dir \cup {info.file_name}
               /\ val_image_ids' = val_image_ids \ {img_id}
               /\ UNCHANGED <<spc, sexc>>
          ELSE /\ spc' = "aborted"
               /\ sexc' = "KeyError"
               /\ UNCHANGED <<val_coco, val_dir, val_image_ids>>
    /\ UNCHANGED <<coco_data, train_ratio, category_to_annotations, cidx, train_coco,
                   train_image_ids, train_dir, split_out>>
    /\ UNCHANGED <<cvars, mvars>>

\* Lines 64-68: both datasets are dumped.
SaveSplit ==
    /\ spc = "val_images"
    /\ val_image_ids = {}
    /\ split_out' = << train_coco, val_coco >>
    /\ spc' = "done"
    /\ UNCHANGED <<coco_data, train_ratio, category_to_annotations, cidx, train_coco,
                   val_coco, train_image_ids, val_image_ids, train_dir, val_dir, sexc>>
    /\ UNCHANGED <<cvars, mvars>>

SplitNext ==
    \/ GroupAnnotations
    \/ SplitCategory
    \/ CollectImageIds
    \/ AddTrainImage
    \/ EndTrainImages
    \/ AddValImage
    \/ SaveSplit

SplitSpec == SplitInit /\ [][SplitNext]_vars

\* ===================================================================
\* Properties of split_coco_dataset_by_category
\* ===================================================================
\* How many records of the list satisfy a test on the record.
CountIn(list, Test(_)) == Cardinality({ k \in 1..Len(list) : Test(list[k]) })

\* floor(n * r) for the ratio r = num / den.
FloorOfProduct(n, r) == CHOOSE m \in 0..n : m * r[2] <= n * r[1] /\ n * r[1] < (m + 1) * r[2]

CategoryIdsOfInput == { coco_data.annotations[k].category_id : k \in 1..Len(coco_data.annotations) }

\* The image list of a written dataset holds each image its annotations
\* reference exactly once, and no other image.
ImagesMatchAnnotations(coco) ==
    /\ \A k \in 1..Len(coco.annotations) :
          LET id == coco.annotations[k].image_id
          IN  CountIn(coco.images, LAMBDA img : img.id = id) = 1
    /\ \A j \in 1..Len(coco.images) :
          \E k \in 1..Len(coco.annotations) : coco.annotations[k].image_id = coco.images[j].id

\* C8: after the split every input annotation is in exactly one of the train
\* and val annotation lists; a category with n annotations has floor(n * r)
\* of them in the train list and the other n - floor(n * r) in the val list,
\* whatever the shuffle; and each list's image list holds exactly the images
\* its annotations reference, each once.
C8_SplitCounts ==
    spc = "done" =>
        LET train == split_out[1]
            val   == split_out[2]
        IN  /\ \A k \in 1..Len(coco_data.annotations) :
                  LET ann == coco_data.annotations[k]
                  IN  CountIn(train.annotations, LAMBDA a : a = ann)
                      + CountIn(val.annotations, LAMBDA a : a = ann) = 1
            /\ Len(train.annotations) + Len(val.annotations) = Len(coco_data.annotations)
            /\ \A c \in CategoryIdsOfInput :
                  LET n == CountIn(coco_data.annotations, LAMBDA a : a.category_id = c)
                  IN  /\ CountIn(train.annotations, LAMBDA a : a.category_id = c)
                            = FloorOfProduct(n, train_ratio)
                      /\ CountIn(val.annotations, LAMBDA a : a.category_id = c)
                            = n - FloorOfProduct(n, train_ratio)
            /\ ImagesMatchAnnotations(train)
            /\ ImagesMatchAnnotations(val)

\* C8 witness: a completed split of three annotations of two categories: one
\* in the train list, two in the val list, both on the same image, which the
\* val image list holds once.
C8_Witness ==
    /\ spc = "done"
    /\ Cardinality(CategoryIdsOfInput) = 2
    /\ Len(split_out[1].annotations) = 1
    /\ Len(split_out[2].annotations) = 2
    /\ split_out[2].annotations[1].image_id = split_out[2].annotations[2].image_id
    /\ Len(split_out[2].images) = 1

\* C9: after the split no image is in both the train image list and the val
\* image list, and no image file is in both partition directories.
C9_ImagesPartitioned ==
    spc = "done" =>
        /\ \A i \in 1..Len(split_out[1].images) :
              \A j \in 1..Len(split_out[2].images) :
                  split_out[1].images[i].id # split_out[2].images[j].id
        /\ train_dir \cap val_dir = {}
====
